---------------------------- MODULE Spec2Model ----------------------------
(***************************************************************************)
(* A model of ptmconvert: the command-line converter (src/src/ptmconvert.cpp, *)
(* main -> ptm_read -> ptm_dump -> print_info) and the library functions   *)
(* of src/src/taf_ptm.h that share its code.  Arrays are functions over    *)
(* 0..n-1 so that every index expression reads as in the source.           *)
(***************************************************************************)
EXTENDS Integers, Sequences, FiniteSets, TLC

(* ------------------------------- bounds -------------------------------- *)

\* Largest image width and height of the files explored.
MaxW == 2
MaxH == 2
\* Largest number of bytes between the last header token and the newline.
MaxJunk == 1

(* -------------------------- program constants -------------------------- *)

\* '\n', the byte the scan after the last token looks for.
NL == 10
\* Six luminance coefficients per pixel, then three colour entries.
NumCoeff == 6
NumRGB == 3
\* Side information is read five bytes at a time.
RecordLen == 5

PTM_FORMAT_RGB == "PTM_FORMAT_RGB"
PTM_FORMAT_LUM == "PTM_FORMAT_LUM"
PTM_FORMAT_LRGB == "PTM_FORMAT_LRGB"
PTM_FORMAT_JPEG_RGB == "PTM_FORMAT_JPEG_RGB"
PTM_FORMAT_JPEG_LRGB == "PTM_FORMAT_JPEG_LRGB"
PTM_FORMAT_JPEGLS_RGB == "PTM_FORMAT_JPEGLS_RGB"
PTM_FORMAT_JPEGLS_LRGB == "PTM_FORMAT_JPEGLS_LRGB"

PTMFormat ==
    { PTM_FORMAT_RGB, PTM_FORMAT_LUM, PTM_FORMAT_LRGB, PTM_FORMAT_JPEG_RGB,
      PTM_FORMAT_JPEG_LRGB, PTM_FORMAT_JPEGLS_RGB, PTM_FORMAT_JPEGLS_LRGB }

NOTHING == "NOTHING"
PLANE_INVERSION == "PLANE_INVERSION"
MOTION_COMPENSATION == "MOTION_COMPENSATION"

PTMTransform == { NOTHING, PLANE_INVERSION, MOTION_COMPENSATION }

\* The messages of the exceptions the code throws.
ErrNoInput == "No input file"
ErrOpen == "Can't open file"
ErrVersion == "Wrong version"
ErrFormat == "Unknown format"
ErrStb == "(stb) failure"
ErrComponents == "Too many components in LRGB image"
ErrSize == "Incompatible image size found"
ErrNotImplemented == "Can't read format, not implemented"
ErrDump == "Can't dump format"
ErrPng == "Couldn't write PNG file"
NoError == "none"

(* ------------------------------ the state ------------------------------ *)

VARIABLES
    pc,            \* where the program is
    err,           \* the message of the exception thrown, NoError if none
    good,          \* stream.good()
    ntok,          \* tokens extracted from the stream so far
    version,       \* the first token, as read
    formatToken,   \* the second token, as read
    rest,          \* the bytes of the file behind the last token, not yet read
    temp,          \* the byte of the newline scan: <<>> while indeterminate, else <<b>>
    format, width, height, scale, bias,   \* PTMHeader12
    ci,            \* PTMHeader12::ci
    coefficients,  \* PTMHeader12::coefficients
    planes,        \* the decoded planes, by storage index
    side_info,     \* the side information of each plane
    order,         \* the map from order value to storage index
    loop,          \* p of the first pass, n of the second
    payload,       \* history: the bytes of the file behind its terminating newline
    raw,           \* history: each plane as the decoder returned it
    predicted,     \* history: each plane visited, after prediction, before its patch
    visits,        \* history: the rounds of the second pass, in the order taken
    reconstructed, \* history: the planes as the second pass left them
    coeffH, coeffL, rgb,   \* the three images of ptm_dump
    persisted,     \* the image files written
    input,         \* history: what the file has turned out to hold, as far as read
    lib            \* the library's load of the same file: taf::PTM12 and ptm_load's locals

vars == << pc, err, good, ntok, version, formatToken, rest, temp, format, width,
           height, scale, bias, ci, coefficients, planes, side_info, order, loop,
           payload, raw, predicted, visits, reconstructed, coeffH, coeffL, rgb,
           persisted, input, lib >>

streamVars == << good, ntok, version, formatToken, rest, payload, temp >>
headerVars == << format, width, height, scale, bias >>
planeVars == << planes, side_info, order, loop, raw, predicted, visits, reconstructed >>
imageVars == << coeffH, coeffL, rgb, persisted >>

(* ----------------------------- C arithmetic ---------------------------- *)

Abs(a) == IF a < 0 THEN -a ELSE a

\* int / int and int % int of C++: the quotient is truncated towards zero and
\* the remainder takes the sign of the dividend.
TruncDiv(a, b) ==
    IF (a < 0) = (b < 0) THEN Abs(a) \div Abs(b) ELSE -(Abs(a) \div Abs(b))

TruncRem(a, b) == a - b * TruncDiv(a, b)

\* Conversion of an int to unsigned char.
ToUChar(v) == v % 256

(* -------------------------------- arrays ------------------------------- *)

\* A vector of n elements, value-initialised (resize on an empty vector).
Zeros(n) == [k \in 0..(n - 1) |-> 0]

Size(a) == Cardinality(DOMAIN a)

\* A sequence <<a1, ..., an>> as an array over 0..n-1.
ArrayOf(s) == [k \in 0..(Len(s) - 1) |-> s[k + 1]]

\* The stores dest[w[1]] = w[2] of a loop, made in the order of ws.
RECURSIVE ApplyWrites(_, _, _)
ApplyWrites(dest, ws, k) ==
    IF k > Len(ws) THEN dest
    ELSE ApplyWrites([dest EXCEPT ![ws[k][1]] = ws[k][2]], ws, k + 1)

(* ------------------------- format predicates --------------------------- *)

is_compressed(fmt) ==
    fmt \in { PTM_FORMAT_JPEG_RGB, PTM_FORMAT_JPEG_LRGB,
              PTM_FORMAT_JPEGLS_RGB, PTM_FORMAT_JPEGLS_LRGB }

is_lrgb(fmt) ==
    fmt \in { PTM_FORMAT_JPEG_LRGB, PTM_FORMAT_LRGB, PTM_FORMAT_JPEGLS_LRGB }

get_epp(fmt) == IF is_lrgb(fmt) THEN 9 ELSE 18

\* Every LRGB file has nine planes; the storage indices of a loaded file.
Planes == 0..8

(* ------------------------------ the stream ----------------------------- *)

\* A whitespace-delimited token as operator>> sees it: tok.ok tells whether
\* it parses as a number, tok.val is the number.
Num(v) == [ok |-> TRUE, val |-> v]
BadTok == [ok |-> FALSE, val |-> 0]

\* stream >> x: nothing happens on a stream that is not good; a token that
\* does not parse stores 0 and sets failbit.
Extract(isGood, tok, old) ==
    IF ~isGood THEN [good |-> FALSE, val |-> old]
    ELSE IF tok.ok THEN [good |-> TRUE, val |-> tok.val]
    ELSE [good |-> FALSE, val |-> 0]

\* stream >> a[0]; ...; stream >> a[n-1] for an array a and tokens toks.
RECURSIVE ExtractAll(_, _, _, _)
ExtractAll(isGood, toks, a, k) ==
    IF k > Len(toks) THEN [good |-> isGood, val |-> a]
    ELSE LET e == Extract(isGood, toks[k], a[k - 1])
         IN ExtractAll(e.good, toks, [a EXCEPT ![k - 1] = e.val], k + 1)

\* StreamRead with the byte count off by one: the last byte asked for is
\* never stored.
StreamRead_ShortByOne(isGood, bs, n) ==
    LET got == IF ~isGood THEN 0 ELSE IF n < Len(bs) THEN n ELSE Len(bs)
    IN [ buf |-> [k \in 0..(n - 1) |->
                    IF k < got /\ (k < n - 1 \/ n = 1) THEN bs[k + 1] ELSE 0],
         rest |-> SubSeq(bs, got + 1, Len(bs)),
         good |-> isGood /\ got = n ]

\* stream.read(buf, n) into a zero-filled buffer of n bytes, bs being the
\* bytes of the file not read yet: on a stream that is not good nothing is
\* read; a short read stores what there is and leaves the stream failed.
StreamRead(isGood, bs, n) ==
    LET got == IF ~isGood THEN 0 ELSE IF n < Len(bs) THEN n ELSE Len(bs)
    IN [ buf |-> [k \in 0..(n - 1) |-> IF k < got THEN bs[k + 1] ELSE 0],
         rest |-> SubSeq(bs, got + 1, Len(bs)),
         good |-> isGood /\ got = n ]

(* ------------------------- the external decoder ------------------------ *)

\* stbi_load_from_memory on a compressed plane.  A plane's compressed bytes
\* are one byte b here: 0 (as an empty or cut buffer reads) is no image, 1 is
\* a colour image, 2 an image one pixel too wide, and any other b is a grey
\* image of the width and height asked for.
StbiFails(buf) == Size(buf) = 0 \/ buf[0] = 0
StbiComp(buf) == IF buf[0] = 1 THEN 3 ELSE 1
StbiWidth(buf, w) == IF buf[0] = 2 THEN w + 1 ELSE w
StbiSamples(buf, w, h) ==
    [x \in 0..(StbiWidth(buf, w) * h - 1) |-> (buf[0] * 7 + x * 61) % 256]

(* --------------------------- reconstruction ---------------------------- *)

\* std::map<size_t,size_t>::operator[]: a key that is absent is inserted
\* with the value 0.
MapInsert(m, key, val) ==
    [k \in DOMAIN m \cup {key} |-> IF k = key THEN val ELSE m[k]]

\* MapLookup taking the order value itself for the storage index.
MapLookup_Identity(m, key) == key

MapLookup(m, key) == IF key \in DOMAIN m THEN m[key] ELSE 0

\* The body of the prediction loop for one pixel: jpx is the reference
\* sample, ipx the sample predicted, both unsigned char; the sum is an int,
\* % is the remainder of C++, and the store converts to unsigned char.
PredictSample(jpx, ipx, transform) ==
    LET jpx2 == IF transform = PLANE_INVERSION THEN ToUChar(255 - jpx) ELSE jpx
    IN ToUChar(TruncRem(jpx2 + ipx - 128, 255))

\* The prediction loop over the pixels of plane iPlane from plane jPlane.
PredictPlane(iPlane, jPlane, transform) ==
    [x \in DOMAIN iPlane |-> PredictSample(jPlane[x], iPlane[x], transform)]

\* The pixel index of a side-information record from its four bytes:
\* int index = p3 << 24 | p2 << 16 | p1 << 8 | p0, a 32 bit int whose sign
\* bit is the top bit of p3.
RecordIndex(p3, p2, p1, p0) ==
    (IF p3 >= 128 THEN p3 - 256 ELSE p3) * 16777216 + p2 * 65536 + p1 * 256 + p0

\* PatchTarget without the row flip: the record's index used as it is.
PatchTarget_NoFlip(index, w, h) == index

\* The sample a record with pixel index `index` overwrites (col and row are
\* the locals the source names width and height).
PatchTarget(index, w, h) ==
    LET col == TruncRem(index, w)
        row == TruncDiv(index, w)
        h2 == h - row - 1
    IN h2 * w + col

\* What a read of an indeterminate byte (past the end of a vector, or of a
\* variable never assigned) may deliver.
IndetBytes == {0, 255}

\* The plane an out-of-range store of plane i's patch loop can land in: the
\* planes are allocated one after the other in storage order, so a negative
\* offset reaches the plane before and an offset past the end the plane after.
Victims(i, index2) == IF index2 < 0 THEN {i - 1} \cap Planes ELSE {i + 1} \cap Planes

\* The patch loop of plane i over its side information `side`, from offset x
\* on: the set of its possible results, each the planes it leaves and whether
\* the process was killed.  A record cut short reads past the end of the
\* vector, and a target outside the plane is a store outside the buffer: both
\* are undefined, and every outcome a build can show is a result here (the
\* process dies, the store lands in memory nothing reads, or it lands in a
\* neighbouring plane).
RECURSIVE PatchOutcomes(_, _, _, _, _, _)
PatchOutcomes(pl, i, side, x, w, h) ==
    IF x >= Size(side) THEN {[planes |-> pl, crashed |-> FALSE]}
    ELSE
      LET ByteAt(k) == IF x + k < Size(side) THEN {side[x + k]} ELSE IndetBytes
          recs == { <<RecordIndex(p3, p2, p1, p0), v>> :
                      p3 \in ByteAt(0), p2 \in ByteAt(1), p1 \in ByteAt(2),
                      p0 \in ByteAt(3), v \in ByteAt(4) }
          dead == [planes |-> pl, crashed |-> TRUE]
          Store(r) ==
            LET index2 == PatchTarget(r[1], w, h)
            IN IF index2 \in 0..(w * h - 1)
               THEN PatchOutcomes([pl EXCEPT ![i][index2] = r[2]], i, side, x + RecordLen, w, h)
               ELSE {dead}
                    \cup PatchOutcomes(pl, i, side, x + RecordLen, w, h)
                    \cup UNION { PatchOutcomes([pl EXCEPT ![q][k] = r[2]], i, side,
                                               x + RecordLen, w, h) :
                                   q \in Victims(i, index2), k \in 0..(w * h - 1) }
      IN (IF x + RecordLen > Size(side) THEN {dead} ELSE {})
         \cup UNION { Store(r) : r \in recs }

(* ----------------------- assembly and export --------------------------- *)

\* AssemblyWrites addressing the output slot by the plane's order value
\* instead of its storage index.
AssemblyWrites_ByOrder(pl, w, h) ==
    LET numPixels == w * h
        per == NumCoeff + NumRGB
    IN [ k \in 1..(numPixels * per) |->
           LET index == (k - 1) \div per
               p == (k - 1) % per
               invin == numPixels - index - 1
           IN IF p < NumCoeff
              THEN <<index * 6 + p, pl[ci.order[p]][invin]>>
              ELSE <<numPixels * 6 + index * 3 + (p - NumCoeff),
                     pl[ci.order[6 + (p - NumCoeff)]][invin]>> ]

\* AssemblyWrites reading each plane in raster order, not reversed.
AssemblyWrites_NoReverse(pl, w, h) ==
    LET numPixels == w * h
        per == NumCoeff + NumRGB
    IN [ k \in 1..(numPixels * per) |->
           LET index == (k - 1) \div per
               p == (k - 1) % per
           IN IF p < NumCoeff
              THEN <<index * 6 + p, pl[p][index]>>
              ELSE <<numPixels * 6 + index * 3 + (p - NumCoeff), pl[6 + (p - NumCoeff)][index]>> ]

\* The stores of the assembly loops, in loop order: for y, for x, first the
\* six coefficient planes, then the three colour planes.
AssemblyWrites(pl, w, h) ==
    LET numPixels == w * h
        per == NumCoeff + NumRGB
    IN [ k \in 1..(numPixels * per) |->
           LET index == (k - 1) \div per
               p == (k - 1) % per
               invin == numPixels - index - 1
           IN IF p < NumCoeff
              THEN <<index * 6 + p, pl[p][invin]>>
              ELSE <<numPixels * 6 + index * 3 + (p - NumCoeff), pl[6 + (p - NumCoeff)][invin]>> ]

\* DumpIndex without either flip.
DumpIndex_NoFlip(fmt, w, h, x, y) == ((y * w) + x) * 3

\* DumpIndex flipping upside down whatever the format.
DumpIndex_FlipVertical(fmt, w, h, x, y) == (((h - 1 - y) * w) + x) * 3

\* The destination of pixel (x, y) in each of the three images.
DumpIndex(fmt, w, h, x, y) ==
    IF fmt = PTM_FORMAT_JPEG_LRGB THEN ((y * w) + (w - 1 - x)) * 3
    ELSE IF fmt = PTM_FORMAT_LRGB THEN (((h - 1 - y) * w) + x) * 3
    ELSE ((y * w) + x) * 3

\* The offset in the coefficient buffer of the byte an image receives for
\* pixel p and channel c.
DumpSource(img, num_pixels, p, c) ==
    CASE img = "coeffH" -> p * 6 + c
      [] img = "coeffL" -> p * 6 + c + 3
      [] img = "rgb"    -> num_pixels * 6 + p * 3 + c

\* The stores of the splitting loops into image img, in loop order (for y,
\* for x, for c).
DumpWrites(fmt, coeff, w, h, img) ==
    [ k \in 1..(w * h * 3) |->
        LET p == (k - 1) \div 3
            c == (k - 1) % 3
            x == p % w
            y == p \div w
        IN <<DumpIndex(fmt, w, h, x, y) + c, coeff[DumpSource(img, w * h, p, c)]>> ]

(* ------------------------------ the inputs ----------------------------- *)

\* The files explored, token by token and byte by byte.

VersionTokens == {"PTM_1.2", "PTM_1.1", ""}

FormatTokens == PTMFormat \cup {"FOO"}

\* The fourteen numeric tokens of the header: width, height, six scale and
\* six bias values; token `bad` (none when 0) is not a number.
HeaderTokens(w, h, bad) ==
    [k \in 1..14 |-> IF k = bad THEN BadTok
                     ELSE Num(IF k = 1 THEN w ELSE IF k = 2 THEN h ELSE k)]

BadPositions == {0, 1, 2, 3, 14}

\* The header tokens as far as any extraction reads them: behind a token that
\* is not a number nothing is extracted, whatever the file holds there.
TokensRead(toks, bad) ==
    [k \in 1..Len(toks) |-> IF bad # 0 /\ k > bad THEN BadTok ELSE toks[k]]

\* Bytes between the last token and the newline: blanks or anything else.
JunkSeqs == UNION { [1..n -> {32, 120}] : n \in 0..MaxJunk }

\* size payload bytes, counting up from seed; a payload may hold the byte NL.
Payload(seed, size) == [k \in 1..size |-> (seed + k - 1) % 256]

PayloadSeeds == {5, 250}

\* What follows the last token of an uncompressed file: a newline and the
\* whole payload, or a payload one byte short, or one byte too long, or no
\* newline at all.
RestLRGB(w, h) ==
    LET size == w * h * 9
    IN { junk \o <<NL>> \o Payload(seed, size) :
           junk \in JunkSeqs, seed \in PayloadSeeds }
       \cup { <<NL>> \o Payload(5, size - 1), <<NL>> \o Payload(5, size + 1) }
       \cup JunkSeqs

\* A side-information record: the pixel index as a 32 bit pattern, most
\* significant byte first, then the value.
Record(index, v) ==
    << (index \div 16777216) % 256, (index \div 65536) % 256,
       (index \div 256) % 256, index % 256, v >>

\* Pixel indices of the records explored: every pixel, the first index past
\* the image, and two indices with the top bit set (0xFFFFFFFF and below).
RecordIndices(w, h) ==
    0..(w * h - 1) \cup {w * h, -1, -w}

SidePayloads(len, w, h) ==
    IF len = 0 THEN { <<>> }
    ELSE IF len = RecordLen THEN { Record(ix, 77) : ix \in RecordIndices(w, h) }
    ELSE IF len = 2 * RecordLen
         THEN { Record(0, 77) \o Record(ix, 78) : ix \in {0, w * h - 1} }
    ELSE { SubSeq(Record(0, 77), 1, len) }

\* The compressed byte of plane p in the files explored.
Blob(p) == 3 + 28 * p

GoodBlobs == [p \in Planes |-> Blob(p)]

RECURSIVE PlaneData(_, _, _, _)
PlaneData(blobs, s, pay, p) ==
    IF p > 8 THEN <<>>
    ELSE <<blobs[p]>> \o (IF p = s THEN pay ELSE <<>>)
         \o PlaneData(blobs, s, pay, p + 1)

\* The compression metadata explored: one transform code for all planes, an
\* order array, a reference-plane array, and at most one plane `side` (none
\* when -1) with `len` bytes of side information.
OrderInputs ==
    { <<0, 1, 2, 3, 4, 5, 6, 7, 8>>, <<8, 7, 6, 5, 4, 3, 2, 1, 0>>,
      <<1, 0, 3, 2, 5, 4, 7, 6, 8>>, <<0, 0, 0, 0, 0, 0, 0, 0, 0>> }

RefInputs ==
    { <<-1, -1, -1, -1, -1, -1, -1, -1, -1>>,
      <<-1, 0, 1, 2, 3, 4, 5, 6, 7>>,
      <<1, 2, 3, 4, 5, 6, 7, 8, -1>>,
      <<0, -1, 9, -1, -1, -1, -1, 6, -1>> }

TransformCodes == {0, 1, 2, 7}

SidePlanes == {1, 7}

SideInputs ==
    { [side |-> -1, len |-> 0] }
    \cup { [side |-> s, len |-> l] :
             s \in SidePlanes, l \in {RecordLen, 2 * RecordLen, 3} }

CIInputs ==
    { [code |-> c, order |-> o, refs |-> r, side |-> si.side, len |-> si.len] :
        c \in TransformCodes, o \in OrderInputs, r \in RefInputs, si \in SideInputs }

\* What follows the last token of a compressed file with metadata cfg: the
\* newline and the nine planes, each one compressed byte and its side
\* information; without side information also files whose plane 2 does not
\* decode, decodes to colour, or to another size, and a file cut inside
\* plane 4; or no newline at all.
RestJPEG(cfg, w, h) ==
    { junk \o <<NL>> \o PlaneData(GoodBlobs, cfg.side, pay, 0) :
        junk \in JunkSeqs, pay \in SidePayloads(cfg.len, w, h) }
    \cup ( IF cfg.side = -1
           THEN { <<NL>> \o PlaneData([GoodBlobs EXCEPT ![2] = b], -1, <<>>, 0) :
                    b \in {0, 1, 2} }
                \cup { <<NL>> \o SubSeq(PlaneData(GoodBlobs, -1, <<>>, 0), 1, 4) }
           ELSE {} )
    \cup JunkSeqs

\* A scalar never assigned holds an indeterminate value.
Indet == "indeterminate"
IndetHeights == {0, 3}
IndetChars == {NL, 120}

EmptyArray == Zeros(0)

\* Nothing of the file has been read.  What is read is kept (keep) only
\* when the library is to load the same file afterwards.
NoInput == [keep |-> FALSE, opens |-> <<>>, header |-> <<>>, cfg |-> <<>>, rest |-> <<>>]

\* The history of the file with what has been read of it: whether it opens,
\* its header tokens, its compression metadata, the bytes behind its last
\* token.
Reading(opens, header, cfg, bytes) ==
    IF input.keep
    THEN [ keep |-> TRUE,
           opens |-> input.opens \o opens, header |-> input.header \o header,
           cfg |-> input.cfg \o cfg, rest |-> input.rest \o bytes ]
    ELSE input

EmptyCI ==
    [ compressionParameter |-> Indet, transforms |-> EmptyArray,
      motionVectors |-> EmptyArray, order |-> EmptyArray,
      referencePlanes |-> EmptyArray, compressedSize |-> EmptyArray,
      sideInformation |-> EmptyArray ]

\* taf::CompressionInfo of a PTM12 just declared.
taf_EmptyCI ==
    [ compressionParameter |-> Indet, transforms |-> EmptyArray,
      motion_vectors |-> EmptyArray, order |-> EmptyArray,
      reference_planes |-> EmptyArray, compressed_size |-> EmptyArray,
      side_information |-> EmptyArray ]

\* The library's caller has declared a taf::PTM12 and calls ptm_load(file,
\* &ptm): vectors empty, scalars indeterminate, h the value height happens
\* to hold; the stream, temp, planes, side_info, order and the loop counter
\* are ptm_load's locals, coeff_h, coeff_l and rgb the caller's containers.
taf_Start(h) ==
    [ pc |-> "open", err |-> NoError, good |-> TRUE, rest |-> <<>>, temp |-> <<>>,
      format |-> Indet, width |-> 0, height |-> h,
      scale |-> [k \in 0..5 |-> Indet], bias |-> [k \in 0..5 |-> Indet],
      ci |-> taf_EmptyCI, coefficients |-> EmptyArray,
      planes |-> EmptyArray, side_info |-> EmptyArray, order |-> EmptyArray,
      loop |-> 0,
      coeff_h |-> EmptyArray, coeff_l |-> EmptyArray, rgb |-> EmptyArray ]

\* main has declared ptm: its vectors are empty, its scalars indeterminate
\* (width is assigned before it is read on every path explored; scale and
\* bias are only ever printed).
Init ==
    /\ pc = "main"
    /\ err = NoError
    /\ good = TRUE
    /\ ntok = 0
    /\ version = ""
    /\ formatToken = ""
    /\ rest = <<>>
    /\ payload = <<>>
    /\ temp = <<>>
    /\ format = Indet
    /\ width = 0
    /\ height \in IndetHeights
    /\ scale = [k \in 0..5 |-> Indet]
    /\ bias = [k \in 0..5 |-> Indet]
    /\ ci = EmptyCI
    /\ coefficients = EmptyArray
    /\ planes = EmptyArray
    /\ side_info = EmptyArray
    /\ order = EmptyArray
    /\ loop = 0
    /\ raw = EmptyArray
    /\ predicted = EmptyArray
    /\ visits = <<>>
    /\ reconstructed = EmptyArray
    /\ coeffH = EmptyArray
    /\ coeffL = EmptyArray
    /\ rgb = EmptyArray
    /\ persisted = {}
    /\ input = NoInput
    /\ lib = taf_Start(0)

\* throw std::runtime_error(msg), caught in main, which returns 1.
Throw(msg) == pc' = "exit1" /\ err' = msg

(* ------------------------------- ptm_read ------------------------------ *)

\* main without a file name argument.
MainNoInput ==
    /\ pc = "main"
    /\ Throw(ErrNoInput)
    /\ UNCHANGED << input, lib, streamVars, headerVars, ci, coefficients, planeVars, imageVars >>

\* The file cannot be opened.
OpenFails ==
    /\ pc = "main"
    /\ good' = FALSE
    /\ input' = Reading(<<FALSE>>, <<>>, <<>>, <<>>)
    /\ Throw(ErrOpen)
    /\ UNCHANGED << lib, ntok, version, formatToken, rest, payload, temp, headerVars, ci, coefficients, planeVars, imageVars >>

Open ==
    /\ pc = "main"
    /\ pc' = "version"
    /\ input' = Reading(<<TRUE>>, <<>>, <<>>, <<>>)
    /\ UNCHANGED << lib, err, streamVars, headerVars, ci, coefficients, planeVars, imageVars >>

\* stream >> version and its check; the empty token is the end of the file.
ReadVersion ==
    /\ pc = "version"
    /\ \E tok \in VersionTokens :
         /\ version' = tok
         /\ good' = (tok # "")
         /\ ntok' = IF tok # "" THEN ntok + 1 ELSE ntok
         /\ IF tok # "PTM_1.2"
            THEN Throw(ErrVersion)
            ELSE pc' = "format" /\ err' = err
    /\ UNCHANGED << input, lib, formatToken, rest, payload, temp, headerVars, ci, coefficients, planeVars, imageVars >>

\* FormatOf matching any LRGB tag instead of the two exact tokens.
FormatOf_Lenient(tok) ==
    IF tok = "PTM_FORMAT_LRGB" THEN PTM_FORMAT_LRGB
    ELSE IF tok \in {"PTM_FORMAT_JPEG_LRGB", "PTM_FORMAT_JPEGLS_LRGB"}
    THEN PTM_FORMAT_JPEG_LRGB
    ELSE Indet

\* The format a format token selects, Indet when the code selects none.
FormatOf(tok) ==
    IF tok = "PTM_FORMAT_LRGB" THEN PTM_FORMAT_LRGB
    ELSE IF tok = "PTM_FORMAT_JPEG_LRGB" THEN PTM_FORMAT_JPEG_LRGB
    ELSE Indet

\* stream >> format and the choice of ptm->format; any other token throws.
ReadFormat ==
    /\ pc = "format"
    /\ \E tok \in FormatTokens :
         /\ formatToken' = tok
         /\ ntok' = ntok + 1
         /\ IF FormatOf(tok) # Indet
            THEN format' = FormatOf(tok) /\ pc' = "header" /\ err' = err
            ELSE format' = format /\ Throw(ErrFormat)
    /\ UNCHANGED << input, lib, good, version, rest, payload, temp, width, height, scale, bias, ci, coefficients,
                    planeVars, imageVars >>

\* stream >> width, height, scale[0..5], bias[0..5]: no extraction is checked.
ParseHeader ==
    /\ pc = "header"
    /\ \E w \in 1..MaxW, h \in 1..MaxH, bad \in BadPositions :
         LET toks == HeaderTokens(w, h, bad)
             ew == Extract(good, toks[1], width)
             eh == Extract(ew.good, toks[2], height)
             es == ExtractAll(eh.good, SubSeq(toks, 3, 8), scale, 1)
             eb == ExtractAll(es.good, SubSeq(toks, 9, 14), bias, 1)
         IN /\ width' = ew.val
            /\ height' = eh.val
            /\ scale' = es.val
            /\ bias' = eb.val
            /\ good' = eb.good
            /\ ntok' = ntok + (IF bad = 0 THEN 14 ELSE bad - 1)
            /\ input' = Reading(<<>>, <<TokensRead(toks, bad)>>, <<>>, <<>>)
    /\ pc' = "ci"
    /\ UNCHANGED << lib, err, version, formatToken, rest, payload, temp, format, ci, coefficients, planeVars, imageVars >>

\* The bytes of bs behind its first newline, none when it holds no newline.
RECURSIVE AfterNewline(_)
AfterNewline(bs) ==
    IF bs = <<>> THEN <<>>
    ELSE IF Head(bs) = NL THEN Tail(bs)
    ELSE AfterNewline(Tail(bs))

\* The compression metadata of an uncompressed file: there is none.  What
\* follows the last token is fixed here.
NoCI ==
    /\ pc = "ci"
    /\ ~is_compressed(format)
    /\ rest' \in (IF good THEN RestLRGB(width, height) ELSE { <<>> })
    /\ payload' = AfterNewline(rest')
    /\ input' = Reading(<<>>, <<>>, <<>>, <<rest'>>)
    /\ pc' = "scan"
    /\ UNCHANGED << lib, err, good, ntok, version, formatToken, temp, headerVars, ci, coefficients, planeVars,
                    imageVars >>

\* The transform of a code read from the file.
TransformOf(v) ==
    IF v = 1 THEN PLANE_INVERSION
    ELSE IF v = 2 THEN MOTION_COMPENSATION
    ELSE NOTHING

\* init_ci and the extraction of the compression metadata.  On a stream that
\* is not good nothing is extracted: the arrays keep the zeros of resize, and
\* the code v of the transform switch is never assigned, so that the switch
\* takes any of its branches (the same one each time round: v is one stack
\* slot).
ParseCI ==
    /\ pc = "ci"
    /\ is_compressed(format)
    /\ LET epp == get_epp(format)
       IN IF good
          THEN \E cfg \in CIInputs :
                 /\ ci' = [ compressionParameter |-> 1,
                            transforms |-> [i \in 0..(epp - 1) |-> TransformOf(cfg.code)],
                            motionVectors |-> Zeros(epp * 2),
                            order |-> ArrayOf(cfg.order),
                            referencePlanes |-> ArrayOf(cfg.refs),
                            compressedSize |-> [i \in 0..(epp - 1) |-> 1],
                            sideInformation |->
                                [i \in 0..(epp - 1) |-> IF i = cfg.side THEN cfg.len ELSE 0] ]
                 /\ ntok' = ntok + 1 + 7 * epp
                 /\ rest' \in RestJPEG(cfg, width, height)
                 /\ input' = Reading(<<>>, <<>>, <<cfg>>, <<rest'>>)
          ELSE \E t \in PTMTransform :
                 /\ ci' = [ compressionParameter |-> Indet,
                            transforms |-> [i \in 0..(epp - 1) |-> t],
                            motionVectors |-> Zeros(epp * 2),
                            order |-> Zeros(epp),
                            referencePlanes |-> Zeros(epp),
                            compressedSize |-> Zeros(epp),
                            sideInformation |-> Zeros(epp) ]
                 /\ ntok' = ntok
                 /\ rest' = <<>>
                 /\ input' = Reading(<<>>, <<>>, <<>>, <<rest'>>)
    /\ payload' = AfterNewline(rest')
    /\ pc' = "scan"
    /\ UNCHANGED << lib, err, good, version, formatToken, temp, headerVars, coefficients, planeVars, imageVars >>

\* One round of do { stream.read(&temp, 1); } while (temp != '\n').  A read
\* that fails stores nothing: temp keeps the byte read before, and when no
\* byte was ever read the comparison reads an indeterminate char.
ScanNewline ==
    /\ pc = "scan"
    /\ LET r == StreamRead(good, rest, 1)
       IN /\ good' = r.good
          /\ rest' = r.rest
          /\ IF r.good THEN temp' = <<r.buf[0]>>
             ELSE IF temp = <<>> THEN \E c \in IndetChars : temp' = <<c>>
             ELSE temp' = temp
    /\ pc' = IF temp' = <<NL>> THEN "alloc" ELSE "scan"
    /\ UNCHANGED << input, lib, err, ntok, version, formatToken, payload, headerVars, ci, coefficients, planeVars, imageVars >>

\* coefficients.clear(), resize(size), and for an uncompressed file the read
\* of the payload; a compressed file goes on to the first pass.  With size 0
\* the address &coefficients[0] is that of no element.
ReadPayload ==
    /\ pc = "alloc"
    /\ LET size == width * height * get_epp(format)
           r == StreamRead(good, rest, size)
       IN IF format = PTM_FORMAT_LRGB
          THEN /\ coefficients' = r.buf
               /\ good' = r.good
               /\ rest' = r.rest
               /\ pc' \in (IF size = 0 THEN {"close", "crashed"} ELSE {"close"})
               /\ err' = err
          ELSE IF format = PTM_FORMAT_JPEG_LRGB
          THEN /\ coefficients' = Zeros(size)
               /\ pc' = "decode"
               /\ UNCHANGED << input, lib, good, rest, err >>
          ELSE /\ coefficients' = Zeros(size)
               /\ Throw(ErrNotImplemented)
               /\ UNCHANGED << input, lib, good, rest >>
    /\ UNCHANGED << input, lib, ntok, version, formatToken, payload, temp, headerVars, ci,
                    planeVars, imageVars >>

\* One round of the first pass, for plane p = loop: read the compressed
\* bytes and the side information, decode, check, and enter the plane in the
\* order map.
DecodePlane ==
    /\ pc = "decode"
    /\ LET p == loop
           epp == get_epp(format)
           rj == StreamRead(good, rest, ci.compressedSize[p])
           sides == ci.sideInformation[p]
           rs == IF sides > 0 THEN StreamRead(rj.good, rj.rest, sides)
                 ELSE [buf |-> EmptyArray, rest |-> rj.rest, good |-> rj.good]
       IN /\ good' = rs.good
          /\ rest' = rs.rest
          /\ side_info' = MapInsert(side_info, p, rs.buf)
          /\ IF StbiFails(rj.buf)
             THEN Throw(ErrStb)
                  /\ UNCHANGED << input, lib, planes, raw, order, loop >>
             ELSE IF StbiComp(rj.buf) # 1
             THEN Throw(ErrComponents)
                  /\ UNCHANGED << input, lib, planes, raw, order, loop >>
             ELSE IF StbiWidth(rj.buf, width) # width
             THEN Throw(ErrSize)
                  /\ UNCHANGED << input, lib, planes, raw, order, loop >>
             ELSE /\ planes' = MapInsert(planes, p, StbiSamples(rj.buf, width, height))
                  /\ raw' = MapInsert(raw, p, StbiSamples(rj.buf, width, height))
                  /\ order' = MapInsert(order, ci.order[p], p)
                  /\ err' = err
                  /\ IF p + 1 < epp
                     THEN loop' = p + 1 /\ pc' = "decode"
                     ELSE loop' = 0 /\ pc' = "reconstruct"
    /\ UNCHANGED << input, lib, ntok, version, formatToken, payload, temp, headerVars, ci,
                    coefficients, predicted, visits, reconstructed, imageVars >>

\* The prediction of plane i from reference plane j (lines "prediction if
\* plane index j is not -1"): the set of its possible results.  planes[j]
\* with j outside the vector is a pointer read past its end: the process
\* dies on it, or the loop reads whatever bytes it points to.
PredictOutcomes(pl, i, j, transform) ==
    IF j = -1 THEN {[planes |-> pl, crashed |-> FALSE]}
    ELSE IF j \in DOMAIN pl
    THEN {[planes |-> [pl EXCEPT ![i] = PredictPlane(pl[i], pl[j], transform)],
           crashed |-> FALSE]}
    ELSE {[planes |-> pl, crashed |-> TRUE]}
         \cup { [planes |-> [pl EXCEPT ![i] =
                                PredictPlane(pl[i], [x \in DOMAIN pl[i] |-> b], transform)],
                 crashed |-> FALSE] : b \in IndetBytes }

\* One round of the second pass, for order value n = loop: look the plane up
\* in the order map, predict it from its reference plane, then apply its
\* side information.
ReconstructPlane ==
    /\ pc = "reconstruct"
    /\ LET n == loop
           epp == get_epp(format)
           i == MapLookup(order, n)
           j == ci.referencePlanes[i]
       IN /\ order' = MapInsert(order, n, i)
          /\ \E pre \in PredictOutcomes(planes, i, j, ci.transforms[i]) :
               /\ predicted' = IF pre.crashed THEN predicted
                               ELSE MapInsert(predicted, i, pre.planes[i])
               /\ \E out \in ( IF pre.crashed THEN {pre}
                               ELSE IF Size(side_info[i]) > 0
                               THEN PatchOutcomes(pre.planes, i, side_info[i], 0,
                                                  width, height)
                               ELSE {pre} ) :
                    /\ planes' = out.planes
                    /\ visits' = Append(visits,
                                    [i |-> i,
                                     ref |-> IF j \in DOMAIN planes THEN planes[j]
                                             ELSE EmptyArray,
                                     after |-> out.planes[i]])
                    /\ IF out.crashed
                       THEN pc' = "crashed" /\ loop' = loop
                                            /\ reconstructed' = reconstructed
                       ELSE IF n + 1 < epp
                       THEN pc' = "reconstruct" /\ loop' = n + 1
                                                /\ reconstructed' = reconstructed
                       ELSE pc' = "assemble" /\ loop' = loop
                                             /\ reconstructed' = out.planes
    /\ UNCHANGED << input, lib, err, streamVars, headerVars, ci, coefficients, side_info, raw,
                    imageVars >>

\* The assembly loops of a compressed file.
Assemble ==
    /\ pc = "assemble"
    /\ coefficients' =
         ApplyWrites(coefficients, AssemblyWrites(planes, width, height), 1)
    /\ pc' = "free"
    /\ UNCHANGED << input, lib, err, streamVars, headerVars, ci, planeVars, imageVars >>

\* stbi_image_free of every plane.
FreePlanes ==
    /\ pc = "free"
    /\ planes' = EmptyArray
    /\ pc' = "close"
    /\ UNCHANGED << input, lib, err, streamVars, headerVars, ci, coefficients, side_info, order,
                    loop, raw, predicted, visits, reconstructed, imageVars >>

\* stream.close() and the return to main.
Close ==
    /\ pc = "close"
    /\ pc' = "dump"
    /\ UNCHANGED << input, lib, err, streamVars, headerVars, ci, coefficients, planeVars, imageVars >>

(* ------------------------------- ptm_dump ------------------------------ *)

\* The format check of ptm_dump and the splitting loops.  With no pixel the
\* address &coeffHdata[0] handed on is that of no element.
Dump ==
    /\ pc = "dump"
    /\ IF format # PTM_FORMAT_LRGB /\ format # PTM_FORMAT_JPEG_LRGB
       THEN /\ Throw(ErrDump)
            /\ UNCHANGED << input, lib, coeffH, coeffL, rgb >>
       ELSE LET num_pixels == width * height
                size == num_pixels * 3
            IN /\ coeffH' = ApplyWrites(Zeros(size),
                    DumpWrites(format, coefficients, width, height, "coeffH"), 1)
               /\ coeffL' = ApplyWrites(Zeros(size),
                    DumpWrites(format, coefficients, width, height, "coeffL"), 1)
               /\ rgb' = ApplyWrites(Zeros(size),
                    DumpWrites(format, coefficients, width, height, "rgb"), 1)
               /\ pc' \in (IF size = 0 THEN {"writeH", "crashed"} ELSE {"writeH"})
               /\ err' = err
    /\ UNCHANGED << input, lib, streamVars, headerVars, ci, coefficients, planeVars, persisted >>

\* stbi_write_png of one image: the encoder writes the file and returns
\* nonzero, or writes none and returns 0.
WritePng(at, file, next) ==
    /\ pc = at
    /\ \E ok \in BOOLEAN :
         IF ok
         THEN persisted' = persisted \cup {file} /\ pc' = next /\ err' = err
         ELSE persisted' = persisted /\ Throw(ErrPng)
    /\ UNCHANGED << input, lib, streamVars, headerVars, ci, coefficients, planeVars,
                    coeffH, coeffL, rgb >>

WriteCoeffH == WritePng("writeH", "coeffH.png", "writeL")
WriteCoeffL == WritePng("writeL", "coeffL.png", "writeRGB")
WriteRgb == WritePng("writeRGB", "rgb.png", "print")

\* print_info and return 0.
PrintInfo ==
    /\ pc = "print"
    /\ pc' = "exit0"
    /\ UNCHANGED << input, lib, err, streamVars, headerVars, ci, coefficients, planeVars, imageVars >>

(* --------------------------- the converter ----------------------------- *)

Next ==
    \/ MainNoInput
    \/ OpenFails
    \/ Open
    \/ ReadVersion
    \/ ReadFormat
    \/ ParseHeader
    \/ NoCI
    \/ ParseCI
    \/ ScanNewline
    \/ ReadPayload
    \/ DecodePlane
    \/ ReconstructPlane
    \/ Assemble
    \/ FreePlanes
    \/ Close
    \/ Dump
    \/ WriteCoeffH
    \/ WriteCoeffL
    \/ WriteRgb
    \/ PrintInfo

Spec == Init /\ [][Next]_vars

(* ---------------------- the prediction step alone ---------------------- *)

Bytes == 0..255

\* The last round of the second pass of a one-pixel file: plane 1, of sample
\* s, is predicted from plane 0, of sample r, under transform t; the other
\* planes have no reference plane and nothing has side information.
InitPredict ==
    \E r \in Bytes, s \in Bytes, t \in PTMTransform :
      /\ pc = "reconstruct"
      /\ err = NoError
      /\ good = TRUE
      /\ ntok = 16 + 1 + 7 * 9
      /\ version = "PTM_1.2"
      /\ formatToken = "PTM_FORMAT_JPEG_LRGB"
      /\ rest = <<>>
      /\ payload = <<>>
      /\ temp = <<NL>>
      /\ format = PTM_FORMAT_JPEG_LRGB
      /\ width = 1
      /\ height = 1
      /\ scale = [k \in 0..5 |-> 1]
      /\ bias = [k \in 0..5 |-> 0]
      /\ ci = [ compressionParameter |-> 1,
                transforms |-> [i \in Planes |-> t],
                motionVectors |-> Zeros(18),
                order |-> [i \in Planes |-> IF i = 1 THEN 8 ELSE IF i = 8 THEN 1 ELSE i],
                referencePlanes |-> [i \in Planes |-> IF i = 1 THEN 0 ELSE -1],
                compressedSize |-> [i \in Planes |-> 1],
                sideInformation |-> Zeros(9) ]
      /\ coefficients = Zeros(9)
      /\ planes = [i \in Planes |->
                     [x \in {0} |-> IF i = 0 THEN r ELSE IF i = 1 THEN s ELSE 0]]
      /\ side_info = [i \in Planes |-> EmptyArray]
      /\ order = [n \in Planes |-> IF n = 1 THEN 8 ELSE IF n = 8 THEN 1 ELSE n]
      /\ loop = 8
      /\ raw = [i \in Planes |->
                  [x \in {0} |-> IF i = 0 THEN r ELSE IF i = 1 THEN s ELSE 0]]
      /\ predicted = [i \in Planes \ {1} |-> [x \in {0} |-> IF i = 0 THEN r ELSE 0]]
      /\ visits = <<>>
      /\ reconstructed = EmptyArray
      /\ coeffH = EmptyArray
      /\ coeffL = EmptyArray
      /\ rgb = EmptyArray
      /\ persisted = {}
      /\ input = NoInput
      /\ lib = taf_Start(0)

SpecPredict == InitPredict /\ [][ReconstructPlane]_vars

(* --------------------------- ptm_dump alone ---------------------------- *)

\* ptm_dump (in taf_ptm.h, ptm_load(const PTM12*, ...)) called on a PTM of any
\* format whose coefficient buffer holds width * height * 9 bytes.
InitDump ==
    \E fmt \in PTMFormat, w \in 1..MaxW, h \in 1..MaxH, seed \in PayloadSeeds :
      /\ pc = "dump"
      /\ err = NoError
      /\ good = TRUE
      /\ ntok = 16
      /\ version = "PTM_1.2"
      /\ formatToken = fmt
      /\ rest = <<>>
      /\ payload = <<>>
      /\ temp = <<NL>>
      /\ format = fmt
      /\ width = w
      /\ height = h
      /\ scale = [k \in 0..5 |-> 1]
      /\ bias = [k \in 0..5 |-> 0]
      /\ ci = EmptyCI
      /\ coefficients = ArrayOf(Payload(seed, w * h * 9))
      /\ planes = EmptyArray
      /\ side_info = EmptyArray
      /\ order = EmptyArray
      /\ loop = 0
      /\ raw = EmptyArray
      /\ predicted = EmptyArray
      /\ visits = <<>>
      /\ reconstructed = EmptyArray
      /\ coeffH = EmptyArray
      /\ coeffL = EmptyArray
      /\ rgb = EmptyArray
      /\ persisted = {}
      /\ input = NoInput
      /\ lib = taf_Start(0)

NextDump ==
    \/ Dump
    \/ WriteCoeffH
    \/ WriteCoeffL
    \/ WriteRgb
    \/ PrintInfo

SpecDump == InitDump /\ [][NextDump]_vars

(* --------------------- the library: taf_ptm.h -------------------------- *)

\* ptm_load(file, PTM12*) and ptm_load(PTM12*, coeff_h, coeff_l, rgb) of
\* taf_ptm.h, loading the file the converter reads: its tokens and bytes are
\* those of `version`, `formatToken` and `input`, which holds what the
\* converter has read of the file and the library has yet to read.  The
\* library's state is the record lib; every TAF_ASSERT that fails throws to
\* the caller.

\* The messages of the library's TAF_ASSERTs.
taf_ErrOpen == "Can't open file"
taf_ErrVersion == "Wrong version"
taf_ErrFormat == "Unknown format:"
taf_ErrStb == "failure"
taf_ErrComponents == "Too many components in LRGB image"
taf_ErrSize == "Incompatible image size found"
taf_ErrExport == "Can't read format into RGB buffer"

cliVars == << pc, err, good, ntok, version, formatToken, rest, temp, format, width,
              height, scale, bias, ci, coefficients, planes, side_info, order, loop,
              payload, raw, predicted, visits, reconstructed, coeffH, coeffL, rgb,
              persisted >>

\* The converter has come to rest: it has split the coefficient buffer, has
\* failed, has been killed, or turns in the newline scan for ever.
CliDone ==
    \/ pc \in {"writeH", "exit1", "crashed"}
    \/ pc = "scan" /\ ~good /\ temp # <<>>

\* The library has come to rest: it has returned, has thrown, has been
\* killed, or turns in its newline scan for ever.
LibDone ==
    \/ lib.pc \in {"done", "failed", "crashed"}
    \/ lib.pc = "scan" /\ ~lib.good /\ lib.temp # <<>>

\* How far a run of either program has come: its statement, then the rounds
\* of the loop it is in (the bytes the newline scan has left to read, the
\* loop counter of the two passes).
Progress(at, counter, bytes, isGood) ==
    LET rank == CASE at \in {"main", "open"} -> 0
                  [] at = "version" -> 1
                  [] at = "format" -> 2
                  [] at = "header" -> 3
                  [] at = "ci" -> 4
                  [] at = "scan" -> 5
                  [] at = "alloc" -> 6
                  [] at = "decode" -> 7
                  [] at = "reconstruct" -> 8
                  [] at = "assemble" -> 9
                  [] at = "free" -> 10
                  [] at = "close" -> 11
                  [] at \in {"dump", "export"} -> 12
                  [] OTHER -> 13
        round == IF at = "scan" THEN (IF isGood THEN 0 ELSE 1) - 2 * Len(bytes)
                 ELSE IF at \in {"decode", "reconstruct"} THEN counter
                 ELSE 0
    IN rank * 1000 + round

\* The two programs read the one file side by side, the library one step
\* behind the converter: the library steps when it is behind or the converter
\* has come to rest, the converter when the library has caught up.
LibBehind ==
    /\ ~LibDone
    /\ Progress(lib.pc, lib.loop, lib.rest, lib.good) < Progress(pc, loop, rest, good)

LibTurn == CliDone \/ LibBehind

CliTurn == ~LibBehind

\* TAF_ASSERT(false, msg).
taf_Throw(msg) == [lib EXCEPT !.pc = "failed", !.err = msg]

taf_PredictSample(jpx, ipx, transform) ==
    LET jpx2 == IF transform = PLANE_INVERSION THEN ToUChar(255 - jpx) ELSE jpx
    IN ToUChar(TruncRem(jpx2 + ipx - 128, 255))

taf_PredictPlane(i_plane, j_plane, transform) ==
    [x \in DOMAIN i_plane |-> taf_PredictSample(j_plane[x], i_plane[x], transform)]

taf_RecordIndex(p3, p2, p1, p0) ==
    (IF p3 >= 128 THEN p3 - 256 ELSE p3) * 16777216 + p2 * 65536 + p1 * 256 + p0

taf_PatchTarget(index, w, h) ==
    LET col == TruncRem(index, w)
        row == TruncDiv(index, w)
        h2 == h - row - 1
    IN h2 * w + col

\* The library's prediction of plane i from plane j: as PredictOutcomes.
taf_PredictOutcomes(pl, i, j, transform) ==
    IF j = -1 THEN {[planes |-> pl, crashed |-> FALSE]}
    ELSE IF j \in DOMAIN pl
    THEN {[planes |-> [pl EXCEPT ![i] = taf_PredictPlane(pl[i], pl[j], transform)],
           crashed |-> FALSE]}
    ELSE {[planes |-> pl, crashed |-> TRUE]}
         \cup { [planes |-> [pl EXCEPT ![i] =
                                taf_PredictPlane(pl[i], [x \in DOMAIN pl[i] |-> b], transform)],
                 crashed |-> FALSE] : b \in IndetBytes }

\* The library's patch loop: as PatchOutcomes.
RECURSIVE taf_PatchOutcomes(_, _, _, _, _, _)
taf_PatchOutcomes(pl, i, side, x, w, h) ==
    IF x >= Size(side) THEN {[planes |-> pl, crashed |-> FALSE]}
    ELSE
      LET ByteAt(k) == IF x + k < Size(side) THEN {side[x + k]} ELSE IndetBytes
          recs == { <<taf_RecordIndex(p3, p2, p1, p0), v>> :
                      p3 \in ByteAt(0), p2 \in ByteAt(1), p1 \in ByteAt(2),
                      p0 \in ByteAt(3), v \in ByteAt(4) }
          dead == [planes |-> pl, crashed |-> TRUE]
          Store(r) ==
            LET index2 == taf_PatchTarget(r[1], w, h)
            IN IF index2 \in 0..(w * h - 1)
               THEN taf_PatchOutcomes([pl EXCEPT ![i][index2] = r[2]], i, side,
                                      x + RecordLen, w, h)
               ELSE {dead}
                    \cup taf_PatchOutcomes(pl, i, side, x + RecordLen, w, h)
                    \cup UNION { taf_PatchOutcomes([pl EXCEPT ![q][k] = r[2]], i, side,
                                                   x + RecordLen, w, h) :
                                   q \in Victims(i, index2), k \in 0..(w * h - 1) }
      IN (IF x + RecordLen > Size(side) THEN {dead} ELSE {})
         \cup UNION { Store(r) : r \in recs }

\* The stores of the library's assembly loops.
taf_AssemblyWrites(pl, w, h) ==
    LET num_pixels == w * h
        per == NumCoeff + NumRGB
    IN [ k \in 1..(num_pixels * per) |->
           LET index == (k - 1) \div per
               p == (k - 1) % per
               invin == num_pixels - index - 1
           IN IF p < NumCoeff
              THEN <<index * 6 + p, pl[p][invin]>>
              ELSE <<num_pixels * 6 + index * 3 + (p - NumCoeff),
                     pl[6 + (p - NumCoeff)][invin]>> ]

\* The destination of pixel (x, y) in the caller's three buffers.
taf_DumpIndex(fmt, w, h, x, y) ==
    IF fmt = PTM_FORMAT_JPEG_LRGB THEN ((y * w) + (w - 1 - x)) * 3
    ELSE IF fmt = PTM_FORMAT_LRGB THEN (((h - 1 - y) * w) + x) * 3
    ELSE ((y * w) + x) * 3

\* The stores of ptm_load(PTM12*, ...) into buffer img, in loop order.
taf_DumpWrites(fmt, coeff, w, h, img) ==
    [ k \in 1..(w * h * 3) |->
        LET p == (k - 1) \div 3
            c == (k - 1) % 3
            x == p % w
            y == p \div w
            src == CASE img = "coeff_h" -> p * 6 + c
                     [] img = "coeff_l" -> p * 6 + c + 3
                     [] img = "rgb"     -> w * h * 6 + p * 3 + c
        IN <<taf_DumpIndex(fmt, w, h, x, y) + c, coeff[src]>> ]

\* std::ifstream stream(file) and TAF_ASSERT(stream.good(), ...).
taf_Open ==
    /\ LibTurn
    /\ lib.pc = "open"
    /\ \E h \in IndetHeights :
         lib' = IF input.opens = <<TRUE>>
                THEN [taf_Start(h) EXCEPT !.pc = "version"]
                ELSE [taf_Start(h) EXCEPT !.pc = "failed", !.err = taf_ErrOpen,
                                          !.good = FALSE]
    /\ input' = [input EXCEPT !.opens = <<>>]
    /\ UNCHANGED cliVars

\* stream >> version and its TAF_ASSERT.
taf_ReadVersion ==
    /\ LibTurn
    /\ lib.pc = "version"
    /\ lib' = IF version = "PTM_1.2"
              THEN [lib EXCEPT !.pc = "format"]
              ELSE [taf_Throw(taf_ErrVersion) EXCEPT !.good = (version # "")]
    /\ UNCHANGED << cliVars, input >>

\* stream >> format, the TAF_ASSERT on the token, then the choice of
\* header.format.
taf_ReadFormat ==
    /\ LibTurn
    /\ lib.pc = "format"
    /\ lib' = IF formatToken = "PTM_FORMAT_LRGB" \/ formatToken = "PTM_FORMAT_JPEG_LRGB"
              THEN [lib EXCEPT !.pc = "header",
                               !.format = IF formatToken = "PTM_FORMAT_LRGB"
                                          THEN PTM_FORMAT_LRGB
                                          ELSE PTM_FORMAT_JPEG_LRGB]
              ELSE taf_Throw(taf_ErrFormat)
    /\ UNCHANGED << cliVars, input >>

\* stream >> header.width, height, scale[0..5], bias[0..5].
taf_ParseHeader ==
    /\ LibTurn
    /\ lib.pc = "header"
    /\ LET toks == input.header[1]
           ew == Extract(lib.good, toks[1], lib.width)
           eh == Extract(ew.good, toks[2], lib.height)
           es == ExtractAll(eh.good, SubSeq(toks, 3, 8), lib.scale, 1)
           eb == ExtractAll(es.good, SubSeq(toks, 9, 14), lib.bias, 1)
       IN lib' = [lib EXCEPT !.width = ew.val, !.height = eh.val, !.scale = es.val,
                             !.bias = eb.val, !.good = eb.good, !.pc = "ci"]
    /\ input' = [input EXCEPT !.header = <<>>]
    /\ UNCHANGED cliVars

\* An uncompressed file has no compression metadata.
taf_NoCI ==
    /\ LibTurn
    /\ lib.pc = "ci"
    /\ ~is_compressed(lib.format)
    /\ lib' = [lib EXCEPT !.rest = input.rest[1], !.pc = "scan"]
    /\ input' = [input EXCEPT !.cfg = <<>>, !.rest = <<>>]
    /\ UNCHANGED cliVars

taf_TransformOf(v) ==
    IF v = 1 THEN PLANE_INVERSION
    ELSE IF v = 2 THEN MOTION_COMPENSATION
    ELSE NOTHING

\* detail::init_ci and the extraction of the compression metadata; on a
\* stream that is not good v is never assigned.
taf_ParseCI ==
    /\ LibTurn
    /\ lib.pc = "ci"
    /\ is_compressed(lib.format)
    /\ LET epp == get_epp(lib.format)
       IN IF lib.good
          THEN LET cfg == input.cfg[1]
               IN lib' = [lib EXCEPT
                    !.ci = [ compressionParameter |-> 1,
                             transforms |-> [i \in 0..(epp - 1) |-> taf_TransformOf(cfg.code)],
                             motion_vectors |-> Zeros(epp * 2),
                             order |-> ArrayOf(cfg.order),
                             reference_planes |-> ArrayOf(cfg.refs),
                             compressed_size |-> [i \in 0..(epp - 1) |-> 1],
                             side_information |->
                                 [i \in 0..(epp - 1) |-> IF i = cfg.side THEN cfg.len ELSE 0] ],
                    !.rest = input.rest[1],
                    !.pc = "scan"]
          ELSE \E t \in PTMTransform :
                 lib' = [lib EXCEPT
                    !.ci = [ compressionParameter |-> Indet,
                             transforms |-> [i \in 0..(epp - 1) |-> t],
                             motion_vectors |-> Zeros(epp * 2),
                             order |-> Zeros(epp),
                             reference_planes |-> Zeros(epp),
                             compressed_size |-> Zeros(epp),
                             side_information |-> Zeros(epp) ],
                    !.rest = input.rest[1],
                    !.pc = "scan"]
    /\ input' = [input EXCEPT !.cfg = <<>>, !.rest = <<>>]
    /\ UNCHANGED cliVars

\* One round of the library's do { stream.read(&temp, 1); } while (...).
taf_ScanNewline ==
    /\ LibTurn
    /\ lib.pc = "scan"
    /\ LET r == StreamRead(lib.good, lib.rest, 1)
       IN \E t \in ( IF r.good THEN { <<r.buf[0]>> }
                     ELSE IF lib.temp = <<>> THEN { <<c>> : c \in IndetChars }
                     ELSE { lib.temp } ) :
            lib' = [lib EXCEPT !.good = r.good, !.rest = r.rest, !.temp = t,
                               !.pc = IF t = <<NL>> THEN "alloc" ELSE "scan"]
    /\ UNCHANGED << cliVars, input >>

\* coefficients.clear(), resize(size) and, for an uncompressed file, the
\* read of the payload.
taf_ReadPayload ==
    /\ LibTurn
    /\ lib.pc = "alloc"
    /\ LET size == lib.width * lib.height * get_epp(lib.format)
           r == StreamRead(lib.good, lib.rest, size)
       IN IF lib.format = PTM_FORMAT_LRGB
          THEN \E to \in (IF size = 0 THEN {"close", "crashed"} ELSE {"close"}) :
                 lib' = [lib EXCEPT !.coefficients = r.buf, !.good = r.good,
                                    !.rest = r.rest, !.pc = to]
          ELSE IF lib.format = PTM_FORMAT_JPEG_LRGB
          THEN lib' = [lib EXCEPT !.coefficients = Zeros(size), !.pc = "decode"]
          ELSE lib' = [lib EXCEPT !.coefficients = Zeros(size), !.pc = "close"]
    /\ UNCHANGED << cliVars, input >>

\* One round of the library's first pass, for plane p = lib.loop.
taf_DecodePlane ==
    /\ LibTurn
    /\ lib.pc = "decode"
    /\ LET p == lib.loop
           epp == get_epp(lib.format)
           rj == StreamRead(lib.good, lib.rest, lib.ci.compressed_size[p])
           sides == lib.ci.side_information[p]
           rs == IF sides > 0 THEN StreamRead(rj.good, rj.rest, sides)
                 ELSE [buf |-> EmptyArray, rest |-> rj.rest, good |-> rj.good]
           read == [lib EXCEPT !.good = rs.good, !.rest = rs.rest,
                               !.side_info = MapInsert(lib.side_info, p, rs.buf)]
       IN lib' =
            IF StbiFails(rj.buf)
            THEN [read EXCEPT !.pc = "failed", !.err = taf_ErrStb]
            ELSE IF StbiComp(rj.buf) # 1
            THEN [read EXCEPT !.pc = "failed", !.err = taf_ErrComponents]
            ELSE IF StbiWidth(rj.buf, lib.width) # lib.width
            THEN [read EXCEPT !.pc = "failed", !.err = taf_ErrSize]
            ELSE [read EXCEPT
                    !.planes = MapInsert(lib.planes, p,
                                         StbiSamples(rj.buf, lib.width, lib.height)),
                    !.order = MapInsert(lib.order, lib.ci.order[p], p),
                    !.loop = IF p + 1 < epp THEN p + 1 ELSE 0,
                    !.pc = IF p + 1 < epp THEN "decode" ELSE "reconstruct"]
    /\ UNCHANGED << cliVars, input >>

\* One round of the library's second pass, for order value n = lib.loop.
taf_ReconstructPlane ==
    /\ LibTurn
    /\ lib.pc = "reconstruct"
    /\ LET n == lib.loop
           epp == get_epp(lib.format)
           i == MapLookup(lib.order, n)
           j == lib.ci.reference_planes[i]
       IN \E pre \in taf_PredictOutcomes(lib.planes, i, j, lib.ci.transforms[i]) :
            \E out \in ( IF pre.crashed THEN {pre}
                         ELSE IF Size(lib.side_info[i]) > 0
                         THEN taf_PatchOutcomes(pre.planes, i, lib.side_info[i], 0,
                                                lib.width, lib.height)
                         ELSE {pre} ) :
              lib' = [lib EXCEPT
                        !.order = MapInsert(lib.order, n, i),
                        !.planes = out.planes,
                        !.loop = IF ~out.crashed /\ n + 1 < epp THEN n + 1 ELSE n,
                        !.pc = IF out.crashed THEN "crashed"
                               ELSE IF n + 1 < epp THEN "reconstruct"
                               ELSE "assemble"]
    /\ UNCHANGED << cliVars, input >>

\* The library's assembly loops.
taf_Assemble ==
    /\ LibTurn
    /\ lib.pc = "assemble"
    /\ lib' = [lib EXCEPT
                 !.coefficients =
                     ApplyWrites(lib.coefficients,
                                 taf_AssemblyWrites(lib.planes, lib.width, lib.height), 1),
                 !.pc = "free"]
    /\ UNCHANGED << cliVars, input >>

\* stbi_image_free of every plane.
taf_FreePlanes ==
    /\ LibTurn
    /\ lib.pc = "free"
    /\ lib' = [lib EXCEPT !.planes = EmptyArray, !.pc = "close"]
    /\ UNCHANGED << cliVars, input >>

\* stream.close() and the return to the caller, who calls
\* ptm_load(&ptm, &coeff_h, &coeff_l, &rgb) next.
taf_Close ==
    /\ LibTurn
    /\ lib.pc = "close"
    /\ lib' = [lib EXCEPT !.pc = "export"]
    /\ UNCHANGED << cliVars, input >>

\* ptm_load(PTM12*, coeff_h, coeff_l, rgb) into three buffers of width *
\* height * 3 bytes each, which the caller has allocated.  With no pixel the
\* address &((*coeff_h)[0]) the caller takes is that of no element.
taf_Export ==
    /\ LibTurn
    /\ lib.pc = "export"
    /\ IF lib.format # PTM_FORMAT_LRGB /\ lib.format # PTM_FORMAT_JPEG_LRGB
       THEN lib' = taf_Throw(taf_ErrExport)
       ELSE LET size == lib.width * lib.height * 3
                Buffer(img) ==
                  ApplyWrites(Zeros(size),
                              taf_DumpWrites(lib.format, lib.coefficients, lib.width,
                                             lib.height, img), 1)
            IN \E to \in (IF size = 0 THEN {"done", "crashed"} ELSE {"done"}) :
                 lib' = [lib EXCEPT !.coeff_h = Buffer("coeff_h"),
                                    !.coeff_l = Buffer("coeff_l"),
                                    !.rgb = Buffer("rgb"), !.pc = to]
    /\ UNCHANGED << cliVars, input >>

(* ----------------- the converter and the library together -------------- *)

\* The converter's ptm_read and ptm_dump on a file and the library's two
\* ptm_load on the same file, the library's PTM12 declared, with an
\* indeterminate height of its own, when its caller calls ptm_load.
InitEquiv ==
    /\ pc = "main"
    /\ err = NoError
    /\ good = TRUE
    /\ ntok = 0
    /\ version = ""
    /\ formatToken = ""
    /\ rest = <<>>
    /\ payload = <<>>
    /\ temp = <<>>
    /\ format = Indet
    /\ width = 0
    /\ height \in IndetHeights
    /\ scale = [k \in 0..5 |-> Indet]
    /\ bias = [k \in 0..5 |-> Indet]
    /\ ci = EmptyCI
    /\ coefficients = EmptyArray
    /\ planes = EmptyArray
    /\ side_info = EmptyArray
    /\ order = EmptyArray
    /\ loop = 0
    /\ raw = EmptyArray
    /\ predicted = EmptyArray
    /\ visits = <<>>
    /\ reconstructed = EmptyArray
    /\ coeffH = EmptyArray
    /\ coeffL = EmptyArray
    /\ rgb = EmptyArray
    /\ persisted = {}
    /\ input = [NoInput EXCEPT !.keep = TRUE]
    /\ lib = taf_Start(0)

\* The compression metadata of the files the two programs load side by side:
\* all of CIInputs without side information, and with side information those
\* of transform code 0 whose order is the identity or swaps neighbours.
EquivCIInputs ==
    { cfg \in CIInputs :
        cfg.len > 0 => /\ cfg.code = 0
                       /\ cfg.order \in { <<0, 1, 2, 3, 4, 5, 6, 7, 8>>,
                                          <<1, 0, 3, 2, 5, 4, 7, 6, 8>> } }

EquivFile == \A k \in 1..Len(input.cfg) : input.cfg[k] \in EquivCIInputs

NextEquiv ==
    \/ CliTurn /\ OpenFails
    \/ CliTurn /\ Open
    \/ CliTurn /\ ReadVersion
    \/ CliTurn /\ ReadFormat
    \/ CliTurn /\ ParseHeader
    \/ CliTurn /\ NoCI
    \/ CliTurn /\ ParseCI /\ EquivFile'
    \/ CliTurn /\ ScanNewline
    \/ CliTurn /\ ReadPayload
    \/ CliTurn /\ DecodePlane
    \/ CliTurn /\ ReconstructPlane
    \/ CliTurn /\ Assemble
    \/ CliTurn /\ FreePlanes
    \/ CliTurn /\ Close
    \/ CliTurn /\ Dump
    \/ taf_Open
    \/ taf_ReadVersion
    \/ taf_ReadFormat
    \/ taf_ParseHeader
    \/ taf_NoCI
    \/ taf_ParseCI
    \/ taf_ScanNewline
    \/ taf_ReadPayload
    \/ taf_DecodePlane
    \/ taf_ReconstructPlane
    \/ taf_Assemble
    \/ taf_FreePlanes
    \/ taf_Close
    \/ taf_Export

SpecEquiv == InitEquiv /\ [][NextEquiv]_vars

(* ------------------------------ the claims ----------------------------- *)

\* The error kinds of the specification, as sets of the messages the code
\* throws (every failure of the code is a std::runtime_error, told apart by
\* its message): a bad magic token is a FormatError; a format that is not
\* supported is an UnsupportedFormatError, at load and at export.
FormatError == {ErrVersion}
UnsupportedFormatError == {ErrFormat, ErrNotImplemented, ErrDump}

NumPixels == width * height

\* Channel p of the coefficient buffer coeff, by output pixel index: one of
\* the six bytes of the pixel's coefficient block, or one of the three bytes
\* of its block in the appended RGB region.
Channel(coeff, p) ==
    [ idx \in 0..(NumPixels - 1) |->
        IF p < NumCoeff THEN coeff[idx * NumCoeff + p]
        ELSE coeff[NumPixels * NumCoeff + idx * NumRGB + (p - NumCoeff)] ]

IsPermutation(a) == { a[k] : k \in DOMAIN a } = DOMAIN a

\* C1: the prediction step stores the floor-modulus (r' + s - 128) mod 255,
\* r' being 255 - r under PlaneInversion and r otherwise, for every reference
\* sample r, current sample s and transform; the stored value lies in
\* 0..254, and r = 200 with PlaneInversion and s = 10 stores 192.  (Plane 1
\* of the one-pixel file is predicted from plane 0.)
C1_PredictionIsFloorMod ==
    pc = "assemble" =>
      LET r == planes[0][0]
          s == raw[1][0]
          r2 == IF ci.transforms[1] = PLANE_INVERSION THEN 255 - r ELSE r
      IN /\ planes[1][0] = (r2 + s - 128) % 255
         /\ planes[1][0] \in 0..254
         /\ (r = 200 /\ s = 10 /\ ci.transforms[1] = PLANE_INVERSION)
              => planes[1][0] = 192

\* The case of C2: the file is loaded and assembled, its order array is a
\* permutation, and its only side information is one whole record, in plane
\* i, with a pixel index inside the image.
OneRecordIn(i) ==
    /\ pc = "free"
    /\ IsPermutation(ci.order)
    /\ Size(side_info[i]) = RecordLen
    /\ \A q \in Planes \ {i} : Size(side_info[q]) = 0
    /\ RecordIndex(side_info[i][0], side_info[i][1], side_info[i][2], side_info[i][3])
         \in 0..(NumPixels - 1)

\* After assembly, channel i of the coefficient buffer holds the record's
\* value at pixel (row, col) of the record, or at (row, width - 1 - col) if
\* mirrored, and the predicted sample at every other pixel.
RecordLandsAt(i, mirrored) ==
    LET index == RecordIndex(side_info[i][0], side_info[i][1], side_info[i][2],
                             side_info[i][3])
        v == side_info[i][4]
        row == index \div width
        col == index % width
        at == row * width + (IF mirrored THEN width - 1 - col ELSE col)
    IN \A idx \in 0..(NumPixels - 1) :
         Channel(coefficients, i)[idx] =
           IF idx = at THEN v ELSE predicted[i][NumPixels - idx - 1]

\* C2 as stated: a side-information record for pixel (row, col) with value v
\* leaves v at pixel (row, col) of that plane's channel of the coefficient
\* buffer, and the predicted value at every other pixel of the channel.
C2_RecordAtRowCol ==
    \A i \in Planes : OneRecordIn(i) => RecordLandsAt(i, FALSE)

\* C2 amended: when the order array is a permutation and the plane's side
\* information is the file's only record, a whole one with its pixel inside
\* the image, the record's value is at pixel (row, width - 1 - col) of that
\* plane's channel of the coefficient buffer, the column mirrored, and every
\* other pixel of the channel holds its predicted value.
C2_RecordAtMirroredColumn ==
    \A i \in Planes : OneRecordIn(i) => RecordLandsAt(i, TRUE)

\* A record of a predicted plane of a 2 x 2 file has been assembled.
C2_Witness ==
    \E i \in Planes :
      /\ OneRecordIn(i)
      /\ width = 2
      /\ height = 2
      /\ ci.referencePlanes[i] \in Planes
      /\ predicted[i] # raw[i]

\* C3: a round of the newline scan that finds the stream at its end (or
\* failed) ends the load with a FormatError instead of reading on.
C3_ScanEndsAtEndOfStream ==
    [][ (pc = "scan" /\ (~good \/ rest = <<>>))
          => (pc' = "exit1" /\ err' \in FormatError) ]_vars

C5_BadNumberIsFormatError ==
    (version = "PTM_1.2" /\ FormatOf(formatToken) # Indet
       /\ pc # "header" /\ ntok < 16)
      => (pc = "exit1" /\ err \in FormatError /\ Size(coefficients) = 0)

\* C6: a run that succeeds has persisted all three images, and a run that
\* fails, at whatever step, has persisted none.
C6_AllOrNothing ==
    /\ pc = "exit0" => persisted = {"coeffH.png", "coeffL.png", "rgb.png"}
    /\ pc \in {"exit1", "crashed"} => persisted = {}

LoadReturned == pc \in {"close", "dump", "writeH", "writeL", "writeRGB", "print", "exit0"}

\* C7: after the load of an uncompressed file whose payload, the bytes behind
\* the terminating newline, is width * height * 9 bytes long, the coefficient
\* buffer has that length and is the payload, byte for byte.
C7_UncompressedRoundTrip ==
    (LoadReturned /\ format = PTM_FORMAT_LRGB /\ Len(payload) = width * height * 9)
      => /\ Size(coefficients) = width * height * 9
         /\ coefficients = ArrayOf(payload)

\* A 2 x 2 uncompressed file of 36 payload bytes, one of them a newline
\* byte, has been loaded.
C7_Witness ==
    /\ pc = "close"
    /\ format = PTM_FORMAT_LRGB
    /\ width = 2 /\ height = 2
    /\ Len(payload) = 36
    /\ \E k \in 1..Len(payload) : payload[k] = NL

\* C8: after assembly, whatever the order array, channel p of the
\* coefficient buffer (coefficient slot p for p in 0..5, RGB slot p - 6 for p
\* in 6..8) holds the samples of storage plane p, in reversed raster order.
C8_SlotIsStorageIndex ==
    pc = "free" =>
      \A p \in Planes :
        Channel(coefficients, p) = [idx \in 0..(NumPixels - 1) |-> planes[p][NumPixels - 1 - idx]]

\* A 2 x 2 file whose order array is a permutation other than the identity
\* has been assembled, its planes all different.
C8_Witness ==
    /\ pc = "free"
    /\ width = 2 /\ height = 2
    /\ IsPermutation(ci.order)
    /\ \E p \in Planes : ci.order[p] # p
    /\ \A p, q \in Planes : p # q => planes[p] # planes[q]

\* The byte of image img at row `row`, column `col`, channel c.
ImageAt(img, row, col, c) == img[(row * width + col) * 3 + c]

\* C9: ptm_dump writes, for every pixel (x, y) and channel c, coefficient
\* byte pixel*6 + c to coeffH, pixel*6 + c + 3 to coeffL and RGB-block byte
\* pixel*3 + c to rgb, at (row height-1-y, col x) for an uncompressed and at
\* (row y, col width-1-x) for a compressed file; for any other format it
\* fails with the UnsupportedFormatError "Can't dump format" and writes
\* nothing.
C9_ExportMapping ==
    /\ (pc # "dump" /\ format \in {PTM_FORMAT_LRGB, PTM_FORMAT_JPEG_LRGB})
         => \A x \in 0..(width - 1), y \in 0..(height - 1), c \in 0..2 :
              LET pixel == y * width + x
                  row == IF format = PTM_FORMAT_LRGB THEN height - 1 - y ELSE y
                  col == IF format = PTM_FORMAT_LRGB THEN x ELSE width - 1 - x
              IN /\ ImageAt(coeffH, row, col, c) = coefficients[pixel * 6 + c]
                 /\ ImageAt(coeffL, row, col, c) = coefficients[pixel * 6 + c + 3]
                 /\ ImageAt(rgb, row, col, c) =
                      coefficients[NumPixels * 6 + pixel * 3 + c]
    /\ (pc # "dump" /\ format \notin {PTM_FORMAT_LRGB, PTM_FORMAT_JPEG_LRGB})
         => /\ pc = "exit1"
            /\ err = ErrDump
            /\ err \in UnsupportedFormatError
            /\ persisted = {}
            /\ Size(coeffH) = 0 /\ Size(coeffL) = 0 /\ Size(rgb) = 0

\* A compressed 2 x 2 PTM has been split into its three images.
C9_Witness ==
    pc = "writeH" /\ format = PTM_FORMAT_JPEG_LRGB /\ width = 2 /\ height = 2

\* C10: after reconstruction, every plane whose reference-plane index is -1
\* and whose side information is empty equals its raw decoded samples.
C10_NoPredictionPlaneIsRaw ==
    pc \in {"assemble", "free"} =>
      \A p \in Planes :
        (ci.referencePlanes[p] = -1 /\ Size(side_info[p]) = 0) => planes[p] = raw[p]

\* C11: in every round of the second pass of a plane i whose reference plane
\* j is a plane of the file, the samples of j the prediction reads are the
\* samples j's own round left (its prediction and its patch done) when
\* order[j] < order[i], and j's raw decoded samples when order[j] > order[i].
C11_ReferenceSamples ==
    \A k \in 1..Len(visits) :
      LET i == visits[k].i
          j == ci.referencePlanes[i]
      IN j \in Planes =>
           /\ ci.order[j] < ci.order[i] =>
                \E m \in 1..(k - 1) :
                  visits[m].i = j /\ visits[k].ref = visits[m].after
           /\ ci.order[j] > ci.order[i] => visits[k].ref = raw[j]

\* C12: when the order array is a permutation, the rounds of the second pass
\* take the storage planes in strictly ascending order value, the k-th round
\* the plane of order value k - 1, so no plane twice; when assembly starts
\* every storage plane has had its one round, prediction then patch; and
\* assembly leaves the planes as the second pass left them.
C12_ExactlyOnceInOrder ==
    IsPermutation(ci.order) =>
      /\ \A k \in 1..Len(visits) : ci.order[visits[k].i] = k - 1
      /\ DOMAIN predicted \subseteq { visits[k].i : k \in 1..Len(visits) }
      /\ pc \in {"assemble", "free"} =>
           /\ Len(visits) = Cardinality(Planes)
           /\ { visits[k].i : k \in 1..Len(visits) } = Planes
           /\ DOMAIN predicted = Planes
      /\ pc = "free" => planes = reconstructed

\* The second pass of a 2 x 2 file has taken the planes in an order other
\* than their storage order, and assembly is done.
C12_Witness ==
    /\ pc = "free"
    /\ width = 2 /\ height = 2
    /\ Len(visits) = Cardinality(Planes)
    /\ visits[1].i # 0
    /\ \E k \in 1..Len(visits) : visits[k].ref # EmptyArray

\* C13: after the assembly of a compressed file, for every output pixel
\* (x, y), with index = x + y * width, byte index * 6 + p of the coefficient
\* buffer is reconstructed plane p at position numPixels - index - 1 for p
\* in 0..5, byte numPixels * 6 + index * 3 + p is reconstructed plane 6 + p
\* at that position for p in 0..2, and the assembly loops store to every
\* byte of the width * height * 9 buffer exactly once.
C13_Assembly ==
    pc = "free" =>
      /\ \A x \in 0..(width - 1), y \in 0..(height - 1) :
           LET index == x + y * width
               invin == NumPixels - index - 1
           IN /\ \A p \in 0..5 :
                   coefficients[index * 6 + p] = reconstructed[p][invin]
              /\ \A p \in 0..2 :
                   coefficients[NumPixels * 6 + index * 3 + p] = reconstructed[6 + p][invin]
      /\ Size(coefficients) = width * height * 9
      /\ LET writes == AssemblyWrites(reconstructed, width, height)
         IN \A b \in 0..(width * height * 9 - 1) :
              Cardinality({ k \in DOMAIN writes : writes[k][1] = b }) = 1

\* A 2 x 2 compressed file is assembled, one of its planes patched by its
\* side information and not the same read forwards and backwards.
C13_Witness ==
    /\ pc = "free"
    /\ width = 2 /\ height = 2
    /\ IsPermutation(ci.order)
    /\ \E p \in Planes :
         /\ Size(side_info[p]) > 0
         /\ reconstructed[p] # predicted[p]
         /\ reconstructed[p][0] # reconstructed[p][3]

\* C14: every index a round of the second pass has used was in range: the
\* plane's reference-plane index is -1 or a plane of the file, its side
\* information is a whole number of records, and the patch target of every
\* record is a position of the plane; a file with a value out of range is
\* rejected before the value is used, so no round is ever taken on one.
C14_IndicesInRange ==
    \A k \in 1..Len(visits) :
      LET i == visits[k].i
          side == side_info[i]
      IN /\ ci.referencePlanes[i] \in Planes \cup {-1}
         /\ Size(side) % RecordLen = 0
         /\ \A r \in 0..((Size(side) \div RecordLen) - 1) :
              PatchTarget(RecordIndex(side[r * RecordLen], side[r * RecordLen + 1],
                                      side[r * RecordLen + 2], side[r * RecordLen + 3]),
                          width, height) \in 0..(NumPixels - 1)

\* The byte exported for storage plane p at row `row`, column `col`: planes
\* 0..2 are the channels of coeffH, 3..5 of coeffL, 6..8 of rgb.
ExportedAt(p, row, col) ==
    IF p < 3 THEN ImageAt(coeffH, row, col, p)
    ELSE IF p < 6 THEN ImageAt(coeffL, row, col, p - 3)
    ELSE ImageAt(rgb, row, col, p - 6)

\* ptm_dump has split the coefficient buffer of a compressed file.
CompressedExported ==
    /\ pc \in {"writeH", "writeL", "writeRGB", "print", "exit0"}
    /\ format = PTM_FORMAT_JPEG_LRGB

\* C15: for a compressed file, the exported pixel at (row y, col x) of the
\* channel of plane p is the reconstructed sample of plane p at position
\* (height - 1 - y) * width + x, a vertical flip and nothing else; so when
\* the order array is a permutation and plane i carries the file's only
\* record, for pixel index row * width + col inside the image, exported
\* pixel (row, col) of plane i's channel holds the record's value and every
\* other pixel of the channel its predicted sample, flipped the same way.
C15_NetVerticalFlip ==
    CompressedExported =>
      /\ \A p \in Planes, y \in 0..(height - 1), x \in 0..(width - 1) :
           ExportedAt(p, y, x) = reconstructed[p][(height - 1 - y) * width + x]
      /\ \A i \in Planes :
           ( /\ IsPermutation(ci.order)
             /\ Size(side_info[i]) = RecordLen
             /\ \A q \in Planes \ {i} : Size(side_info[q]) = 0
             /\ RecordIndex(side_info[i][0], side_info[i][1], side_info[i][2],
                            side_info[i][3]) \in 0..(NumPixels - 1) )
           => LET index == RecordIndex(side_info[i][0], side_info[i][1],
                                       side_info[i][2], side_info[i][3])
              IN \A y \in 0..(height - 1), x \in 0..(width - 1) :
                   ExportedAt(i, y, x) =
                     IF y = index \div width /\ x = index % width
                     THEN side_info[i][4]
                     ELSE predicted[i][(height - 1 - y) * width + x]

\* A 2 x 2 compressed file with one record, in a predicted plane, for a
\* pixel of the second row, has been exported.
C15_Witness ==
    /\ CompressedExported
    /\ width = 2 /\ height = 2
    /\ IsPermutation(ci.order)
    /\ \E i \in Planes :
         /\ Size(side_info[i]) = RecordLen
         /\ RecordIndex(side_info[i][0], side_info[i][1], side_info[i][2],
                        side_info[i][3]) \in width..(NumPixels - 1)
         /\ ci.referencePlanes[i] \in Planes
         /\ reconstructed[i] # predicted[i]

\* The converter and the library have stopped at the same statement with the
\* same error.
SameFailure ==
    /\ pc = "exit1"
    /\ lib.pc = "failed"
    /\ \/ err = ErrOpen /\ lib.err = taf_ErrOpen
       \/ err = ErrVersion /\ lib.err = taf_ErrVersion
       \/ err = ErrFormat /\ lib.err = taf_ErrFormat
       \/ err = ErrStb /\ lib.err = taf_ErrStb
       \/ err = ErrComponents /\ lib.err = taf_ErrComponents
       \/ err = ErrSize /\ lib.err = taf_ErrSize
       \/ err = ErrDump /\ lib.err = taf_ErrExport

\* Both have loaded and split the file, with the same header fields, the same
\* coefficient buffer and the same three images.
SameResult ==
    /\ pc = "writeH"
    /\ lib.pc = "done"
    /\ format = lib.format
    /\ width = lib.width
    /\ height = lib.height
    /\ scale = lib.scale
    /\ bias = lib.bias
    /\ coefficients = lib.coefficients
    /\ coeffH = lib.coeff_h
    /\ coeffL = lib.coeff_l
    /\ rgb = lib.rgb

\* C16: on every input file the converter (ptm_read and the splitting loops
\* of ptm_dump) and the library (its two ptm_load) end alike: both fail at the
\* same step, or both succeed with identical header fields, coefficient
\* buffers and coeffH, coeffL and rgb arrays.  Two runs that are both killed,
\* or both never leave the newline scan, count as ending alike.
C16_SameOutcome ==
    (CliDone /\ LibDone)
    => \/ SameFailure
       \/ SameResult
       \/ pc = "crashed" /\ lib.pc = "crashed"
       \/ pc = "scan" /\ lib.pc = "scan"

=============================================================================
